---- MODULE Spec2Model ----
(***************************************************************************)
(* The CNN extractors of youtube_dl/extractor/cnn.py as a state machine:   *)
(* the host resolves one URL by dispatching it to CNNIE, CNNBlogsIE or     *)
(* CNNArticleIE, each of which runs its _real_extract to completion and    *)
(* returns a metadata record, a redirect, or fails.                        *)
(*                                                                         *)
(* Python strings are TLA+ strings (Len, \o and SubSeq act on them).       *)
(* A Python value that may be None is a tuple: <<>> is None, <<v>> is v.   *)
(* A Python dict is a function whose DOMAIN is the set of its keys.        *)
(***************************************************************************)
EXTENDS Integers, Sequences, FiniteSets, TLC

VARIABLES url, ie, pc, calls, webpage, info, result

vars == <<url, ie, pc, calls, webpage, info, result>>

None == <<>>
Some(v) == <<v>>

----------------------------------------------------------------------------
(* Strings *)

\* The character s[i-1] of Python (1-based here), "" outside the string.
Ch(s, i) == IF 1 <= i /\ i <= Len(s) THEN SubSeq(s, i, i) ELSE ""

Digit == {"0", "1", "2", "3", "4", "5", "6", "7", "8", "9"}

Whitespace == {" ", "\t", "\n", "\r"}

\* s[i:] starts with lit (i is 1-based).
LitAt(s, i, lit) ==
    /\ i + Len(lit) - 1 <= Len(s)
    /\ SubSeq(s, i, i + Len(lit) - 1) = lit

\* The index after the longest run of [0-9] that starts at i (i itself when
\* there is none): the greedy [0-9]+ of the patterns below.
RECURSIVE DigitsEnd(_, _)
DigitsEnd(s, i) ==
    IF i <= Len(s) /\ Ch(s, i) \in Digit THEN DigitsEnd(s, i + 1) ELSE i

DigitVal(c) ==
    CASE c = "0" -> 0 [] c = "1" -> 1 [] c = "2" -> 2 [] c = "3" -> 3
      [] c = "4" -> 4 [] c = "5" -> 5 [] c = "6" -> 6 [] c = "7" -> 7
      [] c = "8" -> 8 [] c = "9" -> 9

\* The value of a non-empty string of decimal digits.
RECURSIVE DecValue(_)
DecValue(s) ==
    IF Len(s) = 0 THEN 0
    ELSE 10 * DecValue(SubSeq(s, 1, Len(s) - 1)) + DigitVal(Ch(s, Len(s)))

RECURSIVE LStrip(_)
LStrip(s) ==
    IF Len(s) > 0 /\ Ch(s, 1) \in Whitespace
    THEN LStrip(SubSeq(s, 2, Len(s))) ELSE s

RECURSIVE RStrip(_)
RStrip(s) ==
    IF Len(s) > 0 /\ Ch(s, Len(s)) \in Whitespace
    THEN RStrip(SubSeq(s, 1, Len(s) - 1)) ELSE s

\* str.strip()
Strip(s) == RStrip(LStrip(s))

\* int(s) of a str: surrounding whitespace and one sign are accepted, then
\* only decimal digits; anything else raises ValueError (None here).
PyInt(s) ==
    LET t == Strip(s)
        signed == Len(t) > 0 /\ Ch(t, 1) \in {"+", "-"}
        d == IF signed THEN SubSeq(t, 2, Len(t)) ELSE t
    IN  IF Len(d) > 0 /\ DigitsEnd(d, 1) = Len(d) + 1
        THEN Some(IF signed /\ Ch(t, 1) = "-" THEN 0 - DecValue(d) ELSE DecValue(d))
        ELSE None

----------------------------------------------------------------------------
(* Regular expressions.  A matcher that may backtrack returns the sequence  *)
(* of the positions it can end at, in the order re tries them; the first   *)
(* overall success is the match.                                            *)

Lit(s, i, lit) == IF LitAt(s, i, lit) THEN <<i + Len(lit)>> ELSE <<>>

RECURSIVE ThenLit(_, _, _)
ThenLit(s, ends, lit) ==
    IF ends = <<>> THEN <<>>
    ELSE Lit(s, Head(ends), lit) \o ThenLit(s, Tail(ends), lit)

\* X+? from i, X a character class: the ends i+1, i+2, ... while the
\* characters are in the class (fewest first).
RECURSIVE LazyPlus(_, _, _)
LazyPlus(s, i, excluded) ==
    IF i <= Len(s) /\ Ch(s, i) \notin excluded
    THEN <<i + 1>> \o LazyPlus(s, i + 1, excluded)
    ELSE <<>>

\* .+? : any character but a newline.
LazyDot(s, i) == LazyPlus(s, i, {"\n"})

RECURSIVE ThenLazyDot(_, _)
ThenLazyDot(s, ends) ==
    IF ends = <<>> THEN <<>>
    ELSE LazyDot(s, Head(ends)) \o ThenLazyDot(s, Tail(ends))

\* rex of CNNIE._real_extract, tried at position i:
\*   (?P<width>[0-9]+)x(?P<height>[0-9]+)(?:_(?P<bitrate>[0-9]+)k)?
\* None, or the groups (bitrate is None when the optional part is absent).
RexAt(s, i) ==
    LET wEnd == DigitsEnd(s, i)
        hEnd == DigitsEnd(s, wEnd + 1)
        bEnd == DigitsEnd(s, hEnd + 1)
    IN  IF wEnd > i /\ Ch(s, wEnd) = "x" /\ hEnd > wEnd + 1
        THEN Some([width |-> SubSeq(s, i, wEnd - 1),
                   height |-> SubSeq(s, wEnd + 1, hEnd - 1),
                   bitrate |-> IF Ch(s, hEnd) = "_" /\ bEnd > hEnd + 1
                                  /\ Ch(s, bEnd) = "k"
                               THEN Some(SubSeq(s, hEnd + 1, bEnd - 1))
                               ELSE None])
        ELSE None

\* rex.match(s)
RexMatch(s) == RexAt(s, 1)

RECURSIVE RexSearchFrom(_, _)
RexSearchFrom(s, i) ==
    IF i > Len(s) THEN None
    ELSE IF RexAt(s, i) # None THEN RexAt(s, i)
    ELSE RexSearchFrom(s, i + 1)

\* rex.search(s): the leftmost match.
RexSearch(s) == RexSearchFrom(s, 1)

\* $ without re.MULTILINE: the end, or just before a final newline.
AtDollar(s, i) == i = Len(s) + 1 \/ (i = Len(s) /\ Ch(s, i) = "\n")

\* IosMatch with the audio alternative left out: re.match(r'ios_([0-9]+)$', s).
IosMatchDigitsOnly(s) ==
    IF LitAt(s, 1, "ios_") /\ DigitsEnd(s, 5) > 5 /\ AtDollar(s, DigitsEnd(s, 5))
    THEN Some(SubSeq(s, 5, DigitsEnd(s, 5) - 1))
    ELSE None

\* re.match(r'ios_(audio|[0-9]+)$', s): None, or group 1.
IosMatch(s) ==
    IF ~LitAt(s, 1, "ios_") THEN None
    ELSE IF LitAt(s, 5, "audio") /\ AtDollar(s, 10) THEN Some("audio")
    ELSE IF DigitsEnd(s, 5) > 5 /\ AtDollar(s, DigitsEnd(s, 5))
         THEN Some(SubSeq(s, 5, DigitsEnd(s, 5) - 1))
    ELSE None

\* https?://    (the greedy s? is tried with the s first)
SchemeEnds(s) == Lit(s, 1, "https://") \o Lit(s, 1, "http://")

\* https?://(?:(?:edition|www)\.)?cnn\.com/   (the prefix CNNIE._VALID_URL
\* and CNNArticleIE._VALID_URL share)
RECURSIVE HostEndsFrom(_, _)
HostEndsFrom(s, ends) ==
    IF ends = <<>> THEN <<>>
    ELSE LET i == Head(ends)
         IN  ThenLit(s, ThenLit(s, Lit(s, i, "edition") \o Lit(s, i, "www"), ".")
                        \o <<i>>, "cnn.com/")
             \o HostEndsFrom(s, Tail(ends))

CnnHostEnds(s) == HostEndsFrom(s, SchemeEnds(s))

\* (?:data/.+?|\?)/ from each of `ends`: where <path> can start.
RECURSIVE PathStarts(_, _)
PathStarts(s, ends) ==
    IF ends = <<>> THEN <<>>
    ELSE LET i == Head(ends)
         IN  ThenLit(s, ThenLazyDot(s, Lit(s, i, "data/")) \o Lit(s, i, "?"), "/")
             \o PathStarts(s, Tail(ends))

\* (?:\.(?:cnn|hln|ktvk)(?:-ap)?|(?=&)) at e: the ends of the whole match.
SuffixEnds(s, e) ==
    LET dot == ThenLit(s, Lit(s, e, "."), "cnn") \o ThenLit(s, Lit(s, e, "."), "hln")
               \o ThenLit(s, Lit(s, e, "."), "ktvk")
    IN  (IF dot = <<>> THEN <<>> ELSE Lit(s, Head(dot), "-ap") \o <<Head(dot)>>)
        \o (IF Ch(s, e) = "&" THEN <<e>> ELSE <<>>)

\* (?P<title>[^/]+?) from t0, then the suffix: the first title end that works.
RECURSIVE FirstTitle(_, _, _, _)
FirstTitle(s, a, t0, titleEnds) ==
    IF titleEnds = <<>> THEN None
    ELSE LET e == Head(titleEnds)
         IN  IF SuffixEnds(s, e) # <<>>
             THEN Some([path |-> SubSeq(s, a, Head(SuffixEnds(s, e)) - 1),
                        title |-> SubSeq(s, t0, e - 1)])
             ELSE FirstTitle(s, a, t0, Tail(titleEnds))

\* (?P<path>.+?/ ...) from a: the first end of .+? followed by a slash after
\* which a title and suffix match.
RECURSIVE FirstPath(_, _, _)
FirstPath(s, a, dotEnds) ==
    IF dotEnds = <<>> THEN None
    ELSE LET q == Head(dotEnds)
             m == IF Ch(s, q) = "/"
                  THEN FirstTitle(s, a, q + 1, LazyPlus(s, q + 1, {"/"}))
                  ELSE None
         IN  IF m # None THEN m ELSE FirstPath(s, a, Tail(dotEnds))

RECURSIVE FirstStart(_, _)
FirstStart(s, starts) ==
    IF starts = <<>> THEN None
    ELSE LET m == FirstPath(s, Head(starts), LazyDot(s, Head(starts)))
         IN  IF m # None THEN m ELSE FirstStart(s, Tail(starts))

\* re.match(CNNIE._VALID_URL, s): None, or the groups path and title.
CNNIE_VALID_URL(s) == FirstStart(s, PathStarts(s, ThenLit(s, CnnHostEnds(s), "video/")))

\* The index of the first "." of s at or after i (Len(s) + 1 when none).
RECURSIVE FirstDot(_, _)
FirstDot(s, i) ==
    IF i > Len(s) \/ Ch(s, i) = "." THEN i ELSE FirstDot(s, i + 1)

\* re.match(CNNBlogsIE._VALID_URL, s) is not None:
\*   https?://[^\.]+\.blogs\.cnn\.com/.+
CNNBlogsIE_VALID_URL(s) ==
    \E k \in 1..Len(SchemeEnds(s)) :
        LET p == SchemeEnds(s)[k]
            q == FirstDot(s, p)
        IN  /\ q > p
            /\ LitAt(s, q, ".blogs.cnn.com/")
            /\ LazyDot(s, q + Len(".blogs.cnn.com/")) # <<>>

\* CNNArticleIE._VALID_URL without its (?!video/).
CNNArticleIE_VALID_URL_NoLookahead(s) == CnnHostEnds(s) # <<>>

\* re.match(CNNArticleIE._VALID_URL, s) is not None:
\*   https?://(?:(?:edition|www)\.)?cnn\.com/(?!video/)
CNNArticleIE_VALID_URL(s) ==
    \E k \in 1..Len(CnnHostEnds(s)) : ~LitAt(s, CnnHostEnds(s)[k], "video/")

\* DataUrlAt with a greedy group, data-url="(.+)": the capture runs to the
\* last double quote of the line.
DataUrlAtGreedy(s, i) ==
    IF ~LitAt(s, i, "data-url=\"") THEN None
    ELSE LET c0 == i + Len("data-url=\"")
             quoteEnds == ThenLit(s, LazyDot(s, c0), "\"")
         IN  IF quoteEnds = <<>> THEN None
             ELSE Some(SubSeq(s, c0, quoteEnds[Len(quoteEnds)] - 2))

\* re.search(r'data-url="(.+?)"', s) tried at position i: None, or group 1.
DataUrlAt(s, i) ==
    IF ~LitAt(s, i, "data-url=\"") THEN None
    ELSE LET c0 == i + Len("data-url=\"")
             quoteEnds == ThenLit(s, LazyDot(s, c0), "\"")
         IN  IF quoteEnds = <<>> THEN None
             ELSE Some(SubSeq(s, c0, Head(quoteEnds) - 2))

RECURSIVE DataUrlSearchFrom(_, _)
DataUrlSearchFrom(s, i) ==
    IF i > Len(s) THEN None
    ELSE IF DataUrlAt(s, i) # None THEN DataUrlAt(s, i)
    ELSE DataUrlSearchFrom(s, i + 1)

DataUrlSearch(s) == DataUrlSearchFrom(s, 1)

\* The index after the longest run of whitespace from i (the greedy \s*).
RECURSIVE SpaceEnd(_, _)
SpaceEnd(s, i) ==
    IF i <= Len(s) /\ Ch(s, i) \in Whitespace THEN SpaceEnd(s, i + 1) ELSE i

\* The index of the first "'" of s at or after i (Len(s) + 1 when none).
RECURSIVE FirstQuote(_, _)
FirstQuote(s, i) ==
    IF i > Len(s) \/ Ch(s, i) = "'" THEN i ELSE FirstQuote(s, i + 1)

\* re.search(r"video:\s*'([^']+)'", s) tried at position i: None, or group 1.
VideoAt(s, i) ==
    IF ~LitAt(s, i, "video:") THEN None
    ELSE LET j == SpaceEnd(s, i + Len("video:"))
             k == FirstQuote(s, j + 1)
         IN  IF Ch(s, j) = "'" /\ k > j + 1 /\ k <= Len(s)
             THEN Some(SubSeq(s, j + 1, k - 1))
             ELSE None

RECURSIVE VideoSearchFrom(_, _)
VideoSearchFrom(s, i) ==
    IF i > Len(s) THEN None
    ELSE IF VideoAt(s, i) # None THEN VideoAt(s, i)
    ELSE VideoSearchFrom(s, i + 1)

VideoSearch(s) == VideoSearchFrom(s, 1)

----------------------------------------------------------------------------
(* Helpers of the host package that cnn.py calls *)

\* utils.int_or_none: None stays None, anything else goes through int().
int_or_none(v) == IF v = None THEN None ELSE PyInt(v[1])

\* utils.parse_duration of a text: seconds, or None when it is no duration.
\* Only the forms S and M:S are modelled.
parse_duration(text) ==
    IF text = None THEN None
    ELSE LET t == Strip(text[1])
             mEnd == DigitsEnd(t, 1)
             sEnd == DigitsEnd(t, mEnd + 1)
         IN  IF mEnd > 1 /\ mEnd = Len(t) + 1 THEN Some(DecValue(t))
             ELSE IF mEnd > 1 /\ Ch(t, mEnd) = ":" /\ sEnd > mEnd + 1
                     /\ sEnd = Len(t) + 1
                  THEN Some(60 * DecValue(SubSeq(t, 1, mEnd - 1))
                            + DecValue(SubSeq(t, mEnd + 1, Len(t))))
             ELSE None

\* InfoExtractor._html_search_regex, given what re.search found: the first
\* group, or RegexNotFoundError (None) when there was no match.
html_search_regex(mobj) == mobj

\* d.get(k) of a format, -1 standing for a missing or None number.
NumKey(d, k) ==
    IF k \notin DOMAIN d THEN -1
    ELSE IF k = "tbr" THEN (IF d[k] = None THEN -1 ELSE d[k][1])
    ELSE d[k]

\* f goes before g in the format preference order: audio-only formats
\* first (worst), then by tbr, height and width.
FormatBefore(f, g) ==
    LET kf == <<IF "vcodec" \in DOMAIN f THEN 0 ELSE 1,
                NumKey(f, "tbr"), NumKey(f, "height"), NumKey(f, "width")>>
        kg == <<IF "vcodec" \in DOMAIN g THEN 0 ELSE 1,
                NumKey(g, "tbr"), NumKey(g, "height"), NumKey(g, "width")>>
    IN  \E i \in 1..4 : kf[i] < kg[i] /\ \A j \in 1..(i - 1) : kf[j] = kg[j]

\* One step of a stable insertion sort: fmt goes after every format that is
\* not after it.
RECURSIVE InsertFormat(_, _)
InsertFormat(sorted, fmt) ==
    IF sorted = <<>> THEN <<fmt>>
    ELSE IF FormatBefore(fmt, Head(sorted)) THEN <<fmt>> \o sorted
    ELSE <<Head(sorted)>> \o InsertFormat(Tail(sorted), fmt)

\* InfoExtractor._sort_formats: worst to best, stable.
RECURSIVE sort_formats(_)
sort_formats(formats) ==
    IF formats = <<>> THEN <<>>
    ELSE InsertFormat(sort_formats(SubSeq(formats, 1, Len(formats) - 1)),
                      formats[Len(formats)])

----------------------------------------------------------------------------
(* The extractors.  An exception is [type |-> "error", error |-> its name]. *)

Raise(name) == [type |-> "error", error |-> name]

IsError(v) == "type" \in DOMAIN v /\ v.type = "error"

\* width, height and tbr from a match of rex (lines 74-76 and 80-82).
Dimensions(mf) ==
    ("width" :> PyInt(mf.width)[1]) @@ ("height" :> PyInt(mf.height)[1])
    @@ ("tbr" :> int_or_none(mf.bitrate))

\* FormatOf with the text searched before the attribute is matched.
FormatOfTextFirst(f) ==
    IF f.text = None THEN Raise("AttributeError")
    ELSE IF "bitrate" \notin DOMAIN f.attrib THEN Raise("KeyError")
    ELSE LET fdct == ("format_id" :> f.attrib["bitrate"])
                     @@ ("url" :> "http://ht.cdn.turner.com/cnn/big" \o Strip(f.text[1]))
             mf == RexMatch(f.attrib["bitrate"])
             ms == RexSearch(f.text[1])
             mi == IosMatch(f.attrib["bitrate"])
         IN  IF ms # None THEN Dimensions(ms[1]) @@ fdct
             ELSE IF mf # None THEN Dimensions(mf[1]) @@ fdct
             ELSE IF mi = None THEN fdct
             ELSE IF mi[1] = "audio"
                  THEN ("vcodec" :> "none") @@ ("ext" :> "m4a") @@ fdct
             ELSE ("tbr" :> PyInt(mi[1])) @@ fdct

\* The body of the loop over files/file: the fdct of one element, or the
\* exception it raises.
FormatOf(f) ==
    IF f.text = None THEN Raise("AttributeError")
    ELSE IF "bitrate" \notin DOMAIN f.attrib THEN Raise("KeyError")
    ELSE LET fdct == ("format_id" :> f.attrib["bitrate"])
                     @@ ("url" :> "http://ht.cdn.turner.com/cnn/big" \o Strip(f.text[1]))
             mf == RexMatch(f.attrib["bitrate"])
             ms == RexSearch(f.text[1])
             mi == IosMatch(f.attrib["bitrate"])
         IN  IF mf # None THEN Dimensions(mf[1]) @@ fdct
             ELSE IF ms # None THEN Dimensions(ms[1]) @@ fdct
             ELSE IF mi = None THEN fdct
             ELSE IF mi[1] = "audio"
                  THEN ("vcodec" :> "none") @@ ("ext" :> "m4a") @@ fdct
             ELSE ("tbr" :> PyInt(mi[1])) @@ fdct

\* The first exception among the outcomes of a loop's iterations (the loop
\* stops there), or None.
RECURSIVE FirstError(_)
FirstError(outcomes) ==
    IF outcomes = <<>> THEN None
    ELSE IF IsError(Head(outcomes)) THEN Some(Head(outcomes))
    ELSE FirstError(Tail(outcomes))

Recognised(fdct) == IsError(fdct) \/ DOMAIN fdct # {"format_id", "url"}

\* FormatsOf with formats.append(fdct) inside the branches that recognise
\* the element: an element no pattern matches yields no format.
FormatsOfRecognised(files) ==
    SelectSeq([i \in 1..Len(files) |-> FormatOf(files[i])], Recognised)

\* The loop of lines 65-92: the outcome of each iteration, in document order.
FormatsOf(files) == [i \in 1..Len(files) |-> FormatOf(files[i])]

\* ThumbnailOf with the two attributes exchanged.
ThumbnailOfSwapped(t) ==
    IF "height" \notin DOMAIN t.attrib THEN Raise("KeyError")
    ELSE IF PyInt(t.attrib["height"]) = None THEN Raise("ValueError")
    ELSE IF "width" \notin DOMAIN t.attrib THEN Raise("KeyError")
    ELSE IF PyInt(t.attrib["width"]) = None THEN Raise("ValueError")
    ELSE [height |-> PyInt(t.attrib["width"])[1],
          width |-> PyInt(t.attrib["height"])[1],
          url |-> t.text]

\* One entry of the thumbnails list (lines 96-100), or the exception.
ThumbnailOf(t) ==
    IF "height" \notin DOMAIN t.attrib THEN Raise("KeyError")
    ELSE IF PyInt(t.attrib["height"]) = None THEN Raise("ValueError")
    ELSE IF "width" \notin DOMAIN t.attrib THEN Raise("KeyError")
    ELSE IF PyInt(t.attrib["width"]) = None THEN Raise("ValueError")
    ELSE [height |-> PyInt(t.attrib["height"])[1],
          width |-> PyInt(t.attrib["width"])[1],
          url |-> t.text]

\* The list comprehension of lines 96-100: the outcome for each image.
ThumbnailsOf(images) == [i \in 1..Len(images) |-> ThumbnailOf(images[i])]

\* RecordId taking the id from the URL: 'id': path.
RecordIdFromUrl(groups, doc) == groups.path

\* 'id': info.attrib['id'] (line 110).
RecordId(groups, doc) == doc.attrib["id"]

\* CNNIE._real_extract(u), xml being what _download_xml returns for the
\* manifest URL (None: the download failed).
CNNIE_real_extract(u, xml) ==
    LET mobj == CNNIE_VALID_URL(u)
        doc == xml[1]
        formats == FormatsOf(doc.files)
        thumbnails == ThumbnailsOf(doc.images)
    IN  IF mobj = None THEN Raise("AttributeError")
        ELSE IF xml = None THEN Raise("ExtractorError")
        ELSE IF FirstError(formats) # None THEN FirstError(formats)[1]
        ELSE IF FirstError(thumbnails) # None THEN FirstError(thumbnails)[1]
        ELSE IF doc.length = None THEN Raise("AttributeError")
        ELSE IF "id" \notin DOMAIN doc.attrib THEN Raise("KeyError")
        ELSE IF doc.headline = None \/ doc.description = None
             THEN Raise("AttributeError")
        ELSE [type |-> "video",
              id |-> RecordId(mobj[1], doc),
              title |-> doc.headline[1].text,
              formats |-> sort_formats(formats),
              thumbnails |-> thumbnails,
              description |-> doc.description[1].text,
              duration |-> parse_duration(doc.length[1].text),
              upload_date |-> IF doc.metas # None /\ "version" \in DOMAIN doc.metas[1].attrib
                              THEN Some(doc.metas[1].attrib["version"])
                              ELSE None]

\* The URL of the manifest CNNIE asks _download_xml for (line 57).
InfoUrl(u) ==
    "http://edition.cnn.com/video/data/3.0/" \o CNNIE_VALID_URL(u)[1].path \o "/index.xml"

\* CNNBlogsIE._real_extract naming its own class: 'ie_key': self.ie_key().
CNNBlogsIE_real_extract_OwnKey(page) ==
    LET cnn_url == html_search_regex(DataUrlSearch(page[1]))
    IN  IF page = None THEN Raise("ExtractorError")
        ELSE IF cnn_url = None THEN Raise("RegexNotFoundError")
        ELSE [type |-> "url", url |-> cnn_url[1], ie_key |-> "CNNBlogs"]

\* CNNBlogsIE._real_extract, page being what _download_webpage returns
\* (None: the download failed).
CNNBlogsIE_real_extract(page) ==
    LET cnn_url == html_search_regex(DataUrlSearch(page[1]))
    IN  IF page = None THEN Raise("ExtractorError")
        ELSE IF cnn_url = None THEN Raise("RegexNotFoundError")
        ELSE [type |-> "url", url |-> cnn_url[1], ie_key |-> "CNN"]

\* CNNArticleIE._real_extract.
CNNArticleIE_real_extract(page) ==
    LET cnn_url == html_search_regex(VideoSearch(page[1]))
    IN  IF page = None THEN Raise("ExtractorError")
        ELSE IF cnn_url = None THEN Raise("RegexNotFoundError")
        ELSE [type |-> "url", url |-> "http://cnn.com/video/?/video/" \o cnn_url[1],
              ie_key |-> "CNN"]

----------------------------------------------------------------------------
(* The host: it matches the URL against each extractor's pattern in turn,   *)
(* runs the first that accepts it, and resolves a redirect by handing its  *)
(* URL to the extractor the redirect names.                                 *)

\* ie_key() of CNNIE, CNNBlogsIE and CNNArticleIE, in registration order.
IEs == <<"CNN", "CNNBlogs", "CNNArticle">>

\* InfoExtractor.suitable: re.match(_VALID_URL, u) is not None.
Suitable(key, u) ==
    CASE key = "CNN" -> CNNIE_VALID_URL(u) # None
      [] key = "CNNBlogs" -> CNNBlogsIE_VALID_URL(u)
      [] key = "CNNArticle" -> CNNArticleIE_VALID_URL(u)
      [] OTHER -> FALSE

Matching(u) == {k \in 1..Len(IEs) : Suitable(IEs[k], u)}

\* XML elements: the attributes (a dict) and the text (None when empty).
Elem(attrib, text) == [attrib |-> attrib, text |-> text]

NoAttrib == [k \in {} |-> ""]

Attr(k, v) == k :> v

\* All the lists of at most n elements of S.
RECURSIVE ListsUpTo(_, _)
ListsUpTo(S, n) ==
    IF n = 0 THEN {<<>>}
    ELSE LET shorter == ListsUpTo(S, n - 1)
         IN  shorter \cup {Append(l, e) : l \in {x \in shorter : Len(x) = n - 1}, e \in S}

MaxFiles == 2
MaxImages == 2
MaxHops == 3

SecureHosts == {"cnn.com", "a.blogs.cnn.com"}

Hosts == {"cnn.com", "www.cnn.com", "edition.cnn.com", "us.cnn.com",
          "a.blogs.cnn.com", "www.blogs.cnn.com"}

Paths == {"/video/?/video/a/b.cnn", "/video/data/2.0/video/a/b.hln.html",
          "/video/?/video/a/c.x&y", "/video/?/video/foo",
          "/2014/a/", "/", "/video", "/video/"}

Urls == {"http://" \o h \o p : h \in Hosts, p \in Paths}
        \cup {"https://" \o h \o p : h \in SecureHosts, p \in Paths}
        \cup {"ftp://cnn.com/video/?/video/a/b.cnn", "http://cnn.com/x.blogs.cnn.com/y",
              "http://cnn.com.blogs.cnn.com/video/?/video/a/b.cnn",
              "http://www.cnn.com/video/data/x.blogs.cnn.com/a/b.cnn",
              "http://edition.cnn.com/video.blogs.cnn.com/a"}

\* Page bodies _download_webpage may return.
Pages == {"<div data-url=\"http://cnn.com/video/?/video/a/b.cnn\">",
          "<a data-url=\"http://x/video/a/b.cnn\"> <a data-url=\"http://cnn.com/video/?/video/a/b.cnn\">",
          "<a data-url=\"\" data-url=\"u\">",
          "<a data-url=\"a\nb\"> <b data-url=\"https://www.cnn.com/video/data/2.0/video/a/b.hln.html\">",
          "<a data-url=\"http://a.blogs.cnn.com/2014/a/\"> video:'c.cnn'",
          "<p>no video</p>",
          "x = {video: 'a/b.cnn'}",
          "video:\n 'c.ktvk-ap', video: 'a/b.cnn'",
          "video: 'foo'",
          "video: '' data-url=\"x",
          "video :'a.cnn' video:\t'a/b&x'"}

\* files/file elements: (bitrate attribute, text).
FileElems ==
    {Elem(Attr("bitrate", "64x36_80k"), Some("/a.mp4")),
     Elem(Attr("bitrate", "64x36_80k_hd"), Some(" /a_32x24_50k.mp4\n")),
     Elem(Attr("bitrate", "064x36"), Some("/a_32x24_50k.mp4")),
     Elem(Attr("bitrate", "ios_audio"), Some("/a.mp4")),
     Elem(Attr("bitrate", "ios_audio"), Some("/a_32x24.mp4")),
     Elem(Attr("bitrate", "ios_40"), Some("/a.mp4")),
     Elem(Attr("bitrate", "ios_40"), Some(" /a_32x24_50k.mp4\n")),
     Elem(Attr("bitrate", "hq"), Some("/a.mp4")),
     Elem(Attr("bitrate", "x64x36"), Some("/a_32x24.mp4")),
     Elem(NoAttrib, Some("/a.mp4")),
     Elem(Attr("bitrate", "hq"), None)}

\* images/image elements.
ImageElems ==
    {Elem(Attr("width", "12") @@ Attr("height", "8"), Some("http://i/a.jpg")),
     Elem(Attr("width", " 064") @@ Attr("height", "036 "), None),
     Elem(Attr("width", "+7") @@ Attr("height", "-5"), Some("http://i/b.jpg")),
     Elem(Attr("width", "x") @@ Attr("height", "8"), Some("http://i/a.jpg")),
     Elem(Attr("width", "12") @@ Attr("height", ""), Some("http://i/a.jpg")),
     Elem(Attr("height", "8"), Some("http://i/a.jpg")),
     Elem(Attr("width", "12"), Some("http://i/a.jpg"))}

\* A well-formed manifest, and the ways the rest of it may differ.
BaseDoc ==
    [attrib |-> Attr("id", "a/b.cnn"),
     files |-> <<Elem(Attr("bitrate", "64x36_80k"), Some("/a.mp4"))>>,
     images |-> <<Elem(Attr("width", "12") @@ Attr("height", "8"), Some("http://i/a.jpg"))>>,
     metas |-> Some(Elem(Attr("version", "20130609"), None)),
     length |-> Some(Elem(NoAttrib, Some("2:15"))),
     headline |-> Some(Elem(NoAttrib, Some("Nadal wins"))),
     description |-> Some(Elem(NoAttrib, Some("World Sport")))]

MetaDocs ==
    {[BaseDoc EXCEPT !.attrib = a] : a \in {NoAttrib, Attr("id", ""), Attr("id", "c/d.cnn")}}
    \cup {[BaseDoc EXCEPT !.metas = m] : m \in {None, Some(Elem(NoAttrib, None))}}
    \cup {[BaseDoc EXCEPT !.length = l] :
             l \in {None, Some(Elem(NoAttrib, None)), Some(Elem(NoAttrib, Some("135"))),
                    Some(Elem(NoAttrib, Some("soon")))}}
    \cup {[BaseDoc EXCEPT !.headline = None], [BaseDoc EXCEPT !.description = None]}

\* The manifests _download_xml may return: each varies one part of BaseDoc.
Manifests ==
    {[BaseDoc EXCEPT !.files = fs] : fs \in ListsUpTo(FileElems, MaxFiles)}
    \cup {[BaseDoc EXCEPT !.images = is] : is \in ListsUpTo(ImageElems, MaxImages)}
    \cup MetaDocs

NoResult == [type |-> "none"]

Init ==
    /\ url \in Urls
    /\ ie = ""
    /\ pc = "dispatch"
    /\ calls = 0
    /\ webpage = None
    /\ info = None
    /\ result = NoResult

\* The host picks the first extractor whose pattern accepts the URL.
Dispatch ==
    /\ pc = "dispatch"
    /\ ie' = IF Matching(url) = {} THEN ie
             ELSE IEs[CHOOSE k \in Matching(url) : \A j \in Matching(url) : k <= j]
    /\ result' = IF Matching(url) = {} THEN Raise("UnsupportedError") ELSE result
    /\ pc' = IF Matching(url) = {} THEN "done" ELSE "extract"
    /\ UNCHANGED <<url, calls, webpage, info>>

Returned(r) == IF r.type = "url" THEN "redirect" ELSE "done"

ExtractCNN ==
    /\ pc = "extract"
    /\ ie = "CNN"
    /\ \E xml \in {None} \cup {Some(m) : m \in Manifests} :
          /\ info' = xml
          /\ result' = CNNIE_real_extract(url, xml)
    /\ calls' = calls + 1
    /\ pc' = Returned(result')
    /\ UNCHANGED <<url, ie, webpage>>

ExtractCNNBlogs ==
    /\ pc = "extract"
    /\ ie = "CNNBlogs"
    /\ \E page \in {None} \cup {Some(p) : p \in Pages} :
          /\ webpage' = page
          /\ result' = CNNBlogsIE_real_extract(page)
    /\ calls' = calls + 1
    /\ pc' = Returned(result')
    /\ UNCHANGED <<url, ie, info>>

ExtractCNNArticle ==
    /\ pc = "extract"
    /\ ie = "CNNArticle"
    /\ \E page \in {None} \cup {Some(p) : p \in Pages} :
          /\ webpage' = page
          /\ result' = CNNArticleIE_real_extract(page)
    /\ calls' = calls + 1
    /\ pc' = Returned(result')
    /\ UNCHANGED <<url, ie, info>>

\* The host resolves a redirect with the extractor it names, if that
\* extractor's pattern accepts the URL; the finished call's locals are gone.
FollowRedirect ==
    /\ pc = "redirect"
    /\ calls < MaxHops
    /\ url' = result.url
    /\ ie' = result.ie_key
    /\ webpage' = None
    /\ info' = None
    /\ pc' = IF Suitable(result.ie_key, result.url) THEN "extract" ELSE "done"
    /\ result' = IF Suitable(result.ie_key, result.url) THEN result
                 ELSE Raise("UnsupportedError")
    /\ calls' = calls

Next ==
    \/ Dispatch
    \/ ExtractCNN
    \/ ExtractCNNBlogs
    \/ ExtractCNNArticle
    \/ FollowRedirect

Spec == Init /\ [][Next]_vars

----------------------------------------------------------------------------
(* Properties *)

\* CNNIE._real_extract has returned a metadata record for manifest info[1].
Succeeded == pc = "done" /\ ie = "CNN" /\ result.type = "video"

\* s ends with suffix.
EndsWith(s, suffix) == LitAt(s, Len(s) - Len(suffix) + 1, suffix)

\* <path>/<title>.cnn of a URL .../video/<path>/<title>.cnn: what follows
\* the last /video/ of the part of the URL the pattern matched.
PathInUrl(u) ==
    LET p == CNNIE_VALID_URL(u)[1].path
    IN  IF LitAt(p, 1, "video/") THEN SubSeq(p, Len("video/") + 1, Len(p)) ELSE p

CnnFormUrl(u) == CNNIE_VALID_URL(u) # None /\ EndsWith(CNNIE_VALID_URL(u)[1].path, ".cnn")

\* C1 as stated: whenever CNNIE returns a record for a URL of the form
\* .../video/<path>/<title>.cnn, the record's id is <path>/<title>.cnn and is
\* not empty.
C1_IdIsUrlPath ==
    (Succeeded /\ CnnFormUrl(url)) => (result.id = PathInUrl(url) /\ result.id # "")

\* C1, amended: whenever CNNIE returns a record, its id is the id attribute of
\* the manifest's root element, whatever the URL's path is.
C1_IdIsManifestId ==
    Succeeded => result.id = info[1].attrib["id"]

\* A record was returned for a .cnn URL whose manifest carries another id.
C1_Witness ==
    /\ Succeeded
    /\ CnnFormUrl(url)
    /\ result.id # PathInUrl(url)
    /\ result.id # ""

FormatId(d) == d["format_id"]

BitrateAttr(f) == f.attrib["bitrate"]

\* How many of the formats have format_id v, how many of the files bitrate v.
CountFormats(formats, v) == Cardinality({i \in 1..Len(formats) : FormatId(formats[i]) = v})

CountFiles(files, v) == Cardinality({i \in 1..Len(files) : BitrateAttr(files[i]) = v})

\* C2: whenever CNNIE returns a record, the formats list has one entry per
\* files/file element, and every bitrate attribute value is the format_id of
\* as many formats as there are file elements carrying it (so the sets of
\* format_ids and of bitrate values are equal and sorting only permutes).
C2_OneFormatPerFile ==
    Succeeded =>
        LET files == info[1].files
            formats == result.formats
        IN  /\ Len(formats) = Len(files)
            /\ {FormatId(formats[i]) : i \in 1..Len(formats)}
               = {BitrateAttr(files[i]) : i \in 1..Len(files)}
            /\ \A i \in 1..Len(files) :
                  CountFormats(formats, BitrateAttr(files[i]))
                  = CountFiles(files, BitrateAttr(files[i]))

\* Two file elements with different bitrate attributes, returned in the
\* other order.
C2_Witness ==
    /\ Succeeded
    /\ Len(info[1].files) = 2
    /\ BitrateAttr(info[1].files[1]) # BitrateAttr(info[1].files[2])
    /\ FormatId(result.formats[1]) = BitrateAttr(info[1].files[2])

AllDigits(s) == Len(s) > 0 /\ \A i \in 1..Len(s) : Ch(s, i) \in Digit

\* s starts with <W>x<H>_<N>k, W = s[1..a], H = s[a+2..b], N = s[b+2..c].
StartsWxHNk(s, a, b, c) ==
    /\ 1 <= a /\ a + 2 <= b /\ b + 2 <= c /\ c + 1 <= Len(s)
    /\ AllDigits(SubSeq(s, 1, a)) /\ Ch(s, a + 1) = "x"
    /\ AllDigits(SubSeq(s, a + 2, b)) /\ Ch(s, b + 1) = "_"
    /\ AllDigits(SubSeq(s, b + 2, c)) /\ Ch(s, c + 1) = "k"

\* s contains <digits>x<digits> somewhere.
HasDimensions(s) ==
    \E i \in 2..(Len(s) - 1) :
        Ch(s, i) = "x" /\ Ch(s, i - 1) \in Digit /\ Ch(s, i + 1) \in Digit

\* The descriptors of result.formats that come from file element f.
FormatsFrom(f) ==
    {result.formats[i] : i \in
        {j \in 1..Len(result.formats) :
            /\ result.formats[j]["format_id"] = f.attrib["bitrate"]
            /\ result.formats[j]["url"]
               = "http://ht.cdn.turner.com/cnn/big" \o Strip(f.text[1])}}

\* C3: whenever CNNIE returns a record, every file element whose bitrate
\* attribute starts with <W>x<H>_<N>k has a format descriptor, and that
\* descriptor has width W, height H and tbr N, whatever the element's text
\* is, and no vcodec and no ext.
C3_AttributeDimensions ==
    Succeeded =>
        \A i \in 1..Len(info[1].files) :
            LET f == info[1].files[i]
                s == f.attrib["bitrate"]
            IN  \A a, b, c \in 1..Len(s) :
                    StartsWxHNk(s, a, b, c) =>
                        /\ FormatsFrom(f) # {}
                        /\ \A d \in FormatsFrom(f) :
                              /\ "width" \in DOMAIN d /\ d["width"] = DecValue(SubSeq(s, 1, a))
                              /\ "height" \in DOMAIN d
                              /\ d["height"] = DecValue(SubSeq(s, a + 2, b))
                              /\ "tbr" \in DOMAIN d
                              /\ d["tbr"] = Some(DecValue(SubSeq(s, b + 2, c)))
                              /\ "vcodec" \notin DOMAIN d
                              /\ "ext" \notin DOMAIN d

\* A record from a file element whose attribute starts with <W>x<H>_<N>k and
\* whose text holds other dimensions.
C3_Witness ==
    /\ Succeeded
    /\ \E i \in 1..Len(info[1].files) :
          LET s == info[1].files[i].attrib["bitrate"]
          IN  /\ \E a, b, c \in 1..Len(s) : StartsWxHNk(s, a, b, c)
              /\ HasDimensions(info[1].files[i].text[1])

\* What C4 says of a descriptor d of a file element with bitrate attribute s.
IosDescriptor(s, d) ==
    /\ s = "ios_audio" =>
          /\ "vcodec" \in DOMAIN d /\ d["vcodec"] = "none"
          /\ "ext" \in DOMAIN d /\ d["ext"] = "m4a"
          /\ "width" \notin DOMAIN d
          /\ "height" \notin DOMAIN d
    /\ (LitAt(s, 1, "ios_") /\ AllDigits(SubSeq(s, 5, Len(s)))) =>
          /\ "tbr" \in DOMAIN d
          /\ d["tbr"] = Some(DecValue(SubSeq(s, 5, Len(s))))

\* C4 as stated: whenever CNNIE returns a record, the descriptor of every
\* file element with bitrate attribute ios_audio has vcodec 'none', ext
\* 'm4a' and no width or height, and that of every element with attribute
\* ios_<N> has tbr N, whatever the element's text is.
C4_IosWhateverText ==
    Succeeded =>
        \A i \in 1..Len(info[1].files) :
            LET f == info[1].files[i]
            IN  /\ FormatsFrom(f) # {}
                /\ \A d \in FormatsFrom(f) : IosDescriptor(f.attrib["bitrate"], d)

\* C4, amended: the same for the file elements whose text contains no
\* <digits>x<digits>.
C4_IosTextWithoutDimensions ==
    Succeeded =>
        \A i \in 1..Len(info[1].files) :
            LET f == info[1].files[i]
            IN  ~HasDimensions(f.text[1]) =>
                    /\ FormatsFrom(f) # {}
                    /\ \A d \in FormatsFrom(f) : IosDescriptor(f.attrib["bitrate"], d)

\* A record from an ios_audio element and an ios_<N> element, both with a
\* text without dimensions.
C4_Witness ==
    /\ Succeeded
    /\ \E i, j \in 1..Len(info[1].files) :
          /\ info[1].files[i].attrib["bitrate"] = "ios_audio"
          /\ info[1].files[j].attrib["bitrate"] = "ios_40"
          /\ ~HasDimensions(info[1].files[i].text[1])
          /\ ~HasDimensions(info[1].files[j].text[1])

DigitStr(n) ==
    CASE n = 0 -> "0" [] n = 1 -> "1" [] n = 2 -> "2" [] n = 3 -> "3" [] n = 4 -> "4"
      [] n = 5 -> "5" [] n = 6 -> "6" [] n = 7 -> "7" [] n = 8 -> "8" [] n = 9 -> "9"

\* The decimal numeral of a natural number.
RECURSIVE Numeral(_)
Numeral(n) == IF n < 10 THEN DigitStr(n) ELSE Numeral(n \div 10) \o DigitStr(n % 10)

\* Digit string t is the natural number n written in decimal: its numeral
\* after leading zeros.
DenotesNat(t, n) ==
    LET k == Len(t) - Len(Numeral(n))
    IN  /\ k >= 0
        /\ SubSeq(t, k + 1, Len(t)) = Numeral(n)
        /\ \A i \in 1..k : Ch(t, i) = "0"

\* Attribute value s is the integer n written in decimal, with an optional
\* sign and with whitespace allowed around it.
Denotes(s, n) ==
    LET t == Strip(s)
        rest == SubSeq(t, 2, Len(t))
    IN  \/ n >= 0 /\ DenotesNat(t, n)
        \/ n >= 0 /\ Ch(t, 1) = "+" /\ DenotesNat(rest, n)
        \/ n <= 0 /\ Ch(t, 1) = "-" /\ DenotesNat(rest, 0 - n)

\* C5: whenever CNNIE returns a record, the thumbnails list has one entry
\* per images/image element, in document order; each entry's width and
\* height are the numbers its element's width and height attributes denote
\* and its url is the element's text.
C5_Thumbnails ==
    Succeeded =>
        LET images == info[1].images
            thumbnails == result.thumbnails
        IN  /\ Len(thumbnails) = Len(images)
            /\ \A i \in 1..Len(images) :
                  /\ Denotes(images[i].attrib["width"], thumbnails[i].width)
                  /\ Denotes(images[i].attrib["height"], thumbnails[i].height)
                  /\ thumbnails[i].url = images[i].text

\* A record with two different thumbnails whose widths differ from their
\* heights.
C5_Witness ==
    /\ Succeeded
    /\ Len(result.thumbnails) = 2
    /\ result.thumbnails[1] # result.thumbnails[2]
    /\ \A i \in 1..2 : result.thumbnails[i].width # result.thumbnails[i].height

\* data-url="(.+?)" matches page at i and captures page[c0..e]: at least one
\* character, none a newline, none but the first a double quote, and a
\* double quote follows.
BlogCapture(page, i, e) ==
    LET c0 == i + Len("data-url=\"")
    IN  /\ LitAt(page, i, "data-url=\"")
        /\ c0 <= e /\ e < Len(page)
        /\ Ch(page, e + 1) = "\""
        /\ \A k \in c0..e : Ch(page, k) # "\n"
        /\ \A k \in (c0 + 1)..e : Ch(page, k) # "\""

\* video:\s*'([^']+)' matches page at i, its quote at q, and captures
\* page[q+1..e].
ArticleCapture(page, i, q, e) ==
    /\ LitAt(page, i, "video:")
    /\ i + Len("video:") <= q
    /\ \A k \in (i + Len("video:"))..(q - 1) : Ch(page, k) \in Whitespace
    /\ Ch(page, q) = "'"
    /\ q < e /\ e < Len(page)
    /\ \A k \in (q + 1)..e : Ch(page, k) # "'"
    /\ Ch(page, e + 1) = "'"

\* The places of page where lit occurs.
Occurrences(page, lit) == {i \in 1..Len(page) : LitAt(page, i, lit)}

\* The pattern of CNNBlogsIE (of CNNArticleIE) matches page at i.
BlogMatchAt(page, i) == \E e \in i..Len(page) : BlogCapture(page, i, e)

ArticleMatchAt(page, i) == \E q, e \in i..Len(page) : ArticleCapture(page, i, q, e)

\* A redirect extractor has just returned (or raised).
Returned_From(key) == ie = key /\ pc \in {"redirect", "done"} /\ webpage # None

\* C6: a redirect extractor run on a page that contains its pattern returns
\* a redirect for CNNIE whose URL comes from the first occurrence only: for
\* CNNBlogsIE it is the captured data-url value itself, for CNNArticleIE it
\* is 'http://cnn.com/video/?/video/' followed by the captured literal.
C6_RedirectTarget ==
    /\ Returned_From("CNNBlogs") =>
          LET page == webpage[1]
              starts == Occurrences(page, "data-url=\"")
          IN  \A i \in starts :
                  (\A j \in starts : j < i => ~BlogMatchAt(page, j)) =>
                      \A e \in i..Len(page) :
                          BlogCapture(page, i, e) =>
                              result = [type |-> "url",
                                        url |-> SubSeq(page, i + Len("data-url=\""), e),
                                        ie_key |-> "CNN"]
    /\ Returned_From("CNNArticle") =>
          LET page == webpage[1]
              starts == Occurrences(page, "video:")
          IN  \A i \in starts :
                  (\A j \in starts : j < i => ~ArticleMatchAt(page, j)) =>
                      \A q, e \in i..Len(page) :
                          ArticleCapture(page, i, q, e) =>
                              result = [type |-> "url",
                                        url |-> "http://cnn.com/video/?/video/"
                                                \o SubSeq(page, q + 1, e),
                                        ie_key |-> "CNN"]

\* CNNBlogsIE has returned a redirect for a page with two data-url
\* attributes that differ.
C6_Witness ==
    /\ Returned_From("CNNBlogs")
    /\ pc = "redirect"
    /\ \E i, j \in Occurrences(webpage[1], "data-url=\"") :
          /\ i < j
          /\ \E e \in i..Len(webpage[1]), f \in j..Len(webpage[1]) :
                /\ BlogCapture(webpage[1], i, e)
                /\ BlogCapture(webpage[1], j, f)
                /\ SubSeq(webpage[1], i, e) # SubSeq(webpage[1], j, f)

\* C7: every redirect CNNArticleIE returns has a URL that CNNIE._VALID_URL
\* accepts.
C7_RedirectAccepted ==
    (ie = "CNNArticle" /\ pc = "redirect") => CNNIE_VALID_URL(result.url) # None

\* The elements and attributes CNNIE reads without a check are all there.
RequiredPresent(doc) ==
    /\ "id" \in DOMAIN doc.attrib
    /\ doc.headline # None /\ doc.description # None /\ doc.length # None
    /\ \A i \in 1..Len(doc.files) :
          "bitrate" \in DOMAIN doc.files[i].attrib /\ doc.files[i].text # None
    /\ \A i \in 1..Len(doc.images) : {"width", "height"} \subseteq DOMAIN doc.images[i].attrib

\* C8: for every manifest whose required elements are present CNNIE returns
\* a record, with one thumbnail per image, in which a format has a width or
\* a height only if its attribute or its text holds <digits>x<digits>.
C8_MalformedTolerated ==
    (pc = "done" /\ ie = "CNN" /\ info # None /\ RequiredPresent(info[1])) =>
        /\ result.type = "video"
        /\ Len(result.thumbnails) = Len(info[1].images)
        /\ \A i \in 1..Len(info[1].files) :
              LET f == info[1].files[i]
              IN  (~HasDimensions(f.attrib["bitrate"]) /\ ~HasDimensions(f.text[1])) =>
                      \A d \in FormatsFrom(f) : {"width", "height"} \cap DOMAIN d = {}

\* C9: no URL is accepted by more than one of the three patterns, so the
\* extractor the host picks does not depend on the order it tries them in.
C9_PatternsExclusive == Cardinality(Matching(url)) <= 1

\* A URL CNNIE accepts has been dispatched.
C9_Witness == pc = "extract" /\ ie = "CNN" /\ calls = 0 /\ Matching(url) = {1}

\* Some action of Next is enabled: its guard holds.
CanStep ==
    \/ pc = "dispatch"
    \/ pc = "extract" /\ \E k \in 1..Len(IEs) : ie = IEs[k]
    \/ pc = "redirect" /\ calls < MaxHops

\* C10: a resolution makes at most two extractor calls and at most one
\* redirect; only CNNBlogsIE and CNNArticleIE return a redirect, always for
\* CNNIE, and CNNIE returns a record or fails; and until the resolution is
\* done it can take a step, each step moving it on (dispatch, extract,
\* redirect, extract, done).
C10_AtMostOneRedirect ==
    /\ calls <= 2
    /\ pc = "redirect" => (calls = 1 /\ ie \in {"CNNBlogs", "CNNArticle"})
    /\ result.type = "url" => result.ie_key = "CNN"
    /\ (ie = "CNN" /\ pc = "done") => result.type \in {"video", "error"}
    /\ pc # "done" => CanStep

\* A record reached through one redirect.
C10_Witness == pc = "done" /\ calls = 2 /\ result.type = "video"

====
